---- MODULE Spec2Model ----
(***************************************************************************)
(* Model of scripts/generate-textures.py: a batch that walks the fixed     *)
(* TEXTURES table and, for every name, either skips it because             *)
(* <name>.png exists or asks the image service for it once and stores the  *)
(* result.  The file system, the environment variable and the service are  *)
(* the environment; the script is main() and generate_texture().           *)
(***************************************************************************)
EXTENDS Integers, Sequences, FiniteSets, TLC

VARIABLES
    hasOpenai,      \* the package openai can be imported
    apiKey,         \* value of os.environ.get("OPENAI_API_KEY")
    dirExists,      \* OUTPUT_DIR exists on disk
    files,          \* files[name]: bytes of OUTPUT_DIR/<name>.png, or Absent
    pc,             \* position of the process: "start", "loop", "done", "exited", "blocked"
    idx,            \* position of the for loop in TEXTURES (1-based)
    success_count,  \* main's success_count
    record,         \* record[name]: what each visit of name printed and returned
    requests,       \* requests[name]: client.images.generate calls of this run
    writes,         \* writes[name]: times the output path was opened for writing in this run
    last,           \* the most recent generate_texture call: its response and network use
    printed,        \* the summary main printed, or NoSummary
    exit_code,      \* process exit status, Running while main runs
    startFiles,     \* files as they were when this run started
    startDir,       \* dirExists as it was when this run started
    run,            \* number of the current run on this output directory
    savedBefore,    \* names some earlier run reported as saved
    prevReport,     \* success count the previous run printed, NoReport if none
    faults          \* calls in which something went wrong, over all runs

vars == <<hasOpenai, apiKey, dirExists, files, pc, idx, success_count, record, requests,
          writes, last, printed, exit_code, startFiles, startDir, run,
          savedBefore, prevReport, faults>>

-----------------------------------------------------------------------------
(* Bounds of the exploration *)

\* runs of the script on the same directory
MaxRuns == 2

\* calls in which something goes wrong (a failed item, a transfer cut short)
\* explored over consecutive runs
MaxFaults == 1

-----------------------------------------------------------------------------
(* The fixed table and the values of the environment *)

\* the keys of TEXTURES in insertion order, which is the iteration order of
\* TEXTURES.items(); the prompt of a name plays no part in the control flow
TEXTURES ==
    << "industrial_floor", "industrial_wall", "ritual_floor", "ritual_wall",
       "organic_floor", "organic_wall", "neutral_floor", "neutral_wall" >>

Names == { TEXTURES[i] : i \in 1..Len(TEXTURES) }

\* Python's None
NoneVal == "<None>"

\* the item of the response has no attribute b64_json
NoAttr == "<noattr>"

\* no file at the path
Absent == "<absent>"

\* bytes of a file that was there before the first run
OldBytes == "old"

\* bytes of the image the service generated
ImageBytes == "img"

\* bytes of a file whose transfer stopped early (stands for every strict prefix)
Truncated == "im"

Running == -1

NoSummary == [count |-> -1, total |-> -1, retry_hint |-> FALSE]

NoReport == -1

NoCall == [name |-> "", resp |-> "-", downloads |-> 0, err |-> ""]

\* the two error lines generate_texture prints: the one of the except clause
\* (whatever the exception) and the one for a response without image data
Raised == "Failed to generate"
NoImageData == "No image data in response"

\* truth value of a Python str-or-None, as `if not api_key` and
\* `if image_url` take it; TruthyNotNone is the test `is not None`
TruthyNotNone(v) == v # NoneVal

Truthy(v) == v # NoneVal /\ v # ""

\* Path.exists() of OUTPUT_DIR/<name>.png; ExistsNever ignores the file,
\* ExistsComplete accepts only a complete image
ExistsNever(fs, name) == FALSE

ExistsComplete(fs, name) == fs[name] \notin { Absent, Truncated }

Exists(fs, name) == fs[name] # Absent

\* base64.b64decode of the inline data of the modelled responses:
\* "aW1n" is the encoding of "img", "aW1" has incorrect padding
B64Decode(s) ==
    IF s = "aW1n" THEN [ok |-> TRUE, bytes |-> ImageBytes]
                  ELSE [ok |-> FALSE, bytes |-> ""]

\* what response.data[0] can carry
Urls == { NoneVal, "", "https://img" }
B64s == { NoAttr, NoneVal, "", "aW1n", "aW1" }

\* what client.images.generate can do: raise, or return data of 0 or 1 items
Responses ==
    { [raises |-> TRUE, data |-> << >>], [raises |-> FALSE, data |-> << >>] }
    \cup { [raises |-> FALSE, data |-> << [url |-> u, b64_json |-> b] >>] :
             u \in Urls, b \in B64s }

\* the step of a call that goes wrong, if the call reaches it:
\*   stat:    output_path.exists() raises (an OSError other than "not found",
\*            such as PermissionError on a directory that cannot be searched)
\*   connect: urlopen raises
\*   hang:    urlopen never returns (urlretrieve is called without timeout)
\*   open:    open(output_path, 'wb') raises
\*   body:    reading the body raises or it is shorter than Content-Length
\*   short:   the body ends early and the answer has no Content-Length, so
\*            urlretrieve has nothing to compare with and returns
\*   stall:   reading the body never returns, after the output file was opened
\*   write:   write() on the open output file raises
Faults ==
    { "none", "stat", "connect", "hang", "open", "body", "short", "stall", "write" }

\* the steps after the existence check that a response leads the call to:
\* a truthy url leads to urlretrieve, a falsy url with inline data that
\* decodes leads to open and write, anything else to no I/O at all
FaultsAt(resp) ==
    IF resp.raises \/ resp.data = << >> THEN { "none" }
    ELSE IF resp.data[1].url \notin { NoneVal, "" }
    THEN { "none", "connect", "hang", "open", "body", "short", "stall", "write" }
    ELSE IF resp.data[1].b64_json = "aW1n" THEN { "none", "open", "write" }
    ELSE { "none" }

\* the environment of one call: the existence check raises, or it returns and
\* the service gives a response, with the step that goes wrong after it
Calls ==
    { << [raises |-> TRUE, data |-> << >>], "stat" >> }
    \cup UNION { { <<r, f>> : f \in FaultsAt(r) } : r \in Responses }

-----------------------------------------------------------------------------
(* generate_texture *)

\* urllib.request.urlretrieve(image_url, output_path): urlopen, then
\* open(filename, 'wb'), then copy the body block by block.  A failure after
\* the open leaves the file that was created, with what was written so far.
\* The length of the body is checked only against a Content-Length header: a
\* body that ends early without one is taken as it came.
\* ends is "return", "raise" or "hang".
urlretrieve(fs, name, fault) ==
    CASE fault = "connect" ->
           [ends |-> "raise", files |-> fs, writes |-> 0]
      [] fault = "hang" ->
           [ends |-> "hang", files |-> fs, writes |-> 0]
      [] fault = "open" ->
           [ends |-> "raise", files |-> fs, writes |-> 0]
      [] fault = "body" ->
           [ends |-> "raise", files |-> [fs EXCEPT ![name] = Truncated], writes |-> 1]
      [] fault = "short" ->
           [ends |-> "return", files |-> [fs EXCEPT ![name] = Truncated], writes |-> 1]
      [] fault = "stall" ->
           [ends |-> "hang", files |-> [fs EXCEPT ![name] = Truncated], writes |-> 1]
      [] fault = "write" ->
           [ends |-> "raise", files |-> [fs EXCEPT ![name] = Truncated], writes |-> 1]
      [] OTHER ->
           [ends |-> "return", files |-> [fs EXCEPT ![name] = ImageBytes], writes |-> 1]

\* with open(output_path, "wb") as f: f.write(image_data)
write_bytes(fs, name, image_data, fault) ==
    CASE fault = "open" ->
           [ends |-> "raise", files |-> fs, writes |-> 0]
      [] fault = "write" ->
           [ends |-> "raise", files |-> [fs EXCEPT ![name] = Truncated], writes |-> 1]
      [] OTHER ->
           [ends |-> "return", files |-> [fs EXCEPT ![name] = image_data], writes |-> 1]

\* what a call of generate_texture does: how it ends ("return", "raise" when
\* an exception leaves it, "hang" when it never comes back), what it returns
\* (ret), the tag it prints (SKIP, OK, ERR), the error it logs, the files it
\* leaves and the requests, downloads and file opens it made
Outcome(ends, ret, tag, err, fs, req, dl, wr) ==
    [ends |-> ends, ret |-> ret, tag |-> tag, err |-> err, files |-> fs,
     requests |-> req, downloads |-> dl, writes |-> wr]

\* lines 74-106: the request and the try block around it.  Every exception is
\* caught by `except Exception`, printed and turned into the result False.
fetch_and_save(fs, name, resp, fault) ==
    IF resp.raises
    THEN Outcome("return", FALSE, "ERR", Raised, fs, 1, 0, 0)
    ELSE IF Len(resp.data) = 0
    THEN Outcome("return", FALSE, "ERR", Raised, fs, 1, 0, 0)
    ELSE LET item == resp.data[1]
             image_url == item.url
         IN IF Truthy(image_url)
            THEN LET r == urlretrieve(fs, name, fault)
                 IN CASE r.ends = "raise" ->
                           Outcome("return", FALSE, "ERR", Raised, r.files, 1, 1, r.writes)
                      [] r.ends = "hang" ->
                           Outcome("hang", FALSE, "", "", r.files, 1, 1, r.writes)
                      [] OTHER ->
                           Outcome("return", TRUE, "OK", "", r.files, 1, 1, r.writes)
            ELSE IF item.b64_json # NoAttr /\ Truthy(item.b64_json)
            THEN LET d == B64Decode(item.b64_json)
                 IN IF ~d.ok
                    THEN Outcome("return", FALSE, "ERR", Raised, fs, 1, 0, 0)
                    ELSE LET w == write_bytes(fs, name, d.bytes, fault)
                         IN IF w.ends = "raise"
                            THEN Outcome("return", FALSE, "ERR", Raised, w.files, 1, 0, w.writes)
                            ELSE Outcome("return", TRUE, "OK", "", w.files, 1, 0, w.writes)
            ELSE Outcome("return", FALSE, "ERR", NoImageData, fs, 1, 0, 0)

\* generate_texture_retry asks the service a second time when the first
\* attempt failed
generate_texture_retry(fs, name, resp, fault) ==
    IF fault = "stat"
    THEN Outcome("raise", FALSE, "", "", fs, 0, 0, 0)
    ELSE IF Exists(fs, name)
    THEN Outcome("return", TRUE, "SKIP", "", fs, 0, 0, 0)
    ELSE LET o == fetch_and_save(fs, name, resp, fault)
         IN IF o.ends = "return" /\ ~o.ret THEN [o EXCEPT !.requests = 2] ELSE o

\* lines 65-106.  The existence check of line 70 is outside the try block: an
\* exception of exists() leaves the function.
generate_texture(fs, name, resp, fault) ==
    IF fault = "stat"
    THEN Outcome("raise", FALSE, "", "", fs, 0, 0, 0)
    ELSE IF Exists(fs, name)
    THEN Outcome("return", TRUE, "SKIP", "", fs, 0, 0, 0)
    ELSE fetch_and_save(fs, name, resp, fault)

\* what a response offers, read off the response itself
RespClass(resp) ==
    IF resp.raises THEN "raise"
    ELSE IF Len(resp.data) = 0 THEN "neither"
    ELSE IF resp.data[1].url = "https://img" THEN "url"
    ELSE IF resp.data[1].b64_json \in { "aW1n", "aW1" } THEN "b64"
    ELSE "neither"

-----------------------------------------------------------------------------
(* the module body and main *)

Init ==
    /\ hasOpenai \in BOOLEAN
    /\ apiKey \in { NoneVal, "", "sk-key" }
    /\ files \in [Names -> { Absent, OldBytes }]
    /\ dirExists \in BOOLEAN
    /\ (\E n \in Names : files[n] # Absent) => dirExists
    /\ pc = "start"
    /\ idx = 1
    /\ success_count = 0
    /\ record = [n \in Names |-> << >>]
    /\ requests = [n \in Names |-> 0]
    /\ writes = [n \in Names |-> 0]
    /\ last = NoCall
    /\ printed = NoSummary
    /\ exit_code = Running
    /\ startFiles = files
    /\ startDir = dirExists
    /\ run = 1
    /\ savedBefore = {}
    /\ prevReport = NoReport
    /\ faults = 0

\* lines 11-15: the package openai cannot be imported; print the error and
\* exit(1) before main is even defined
ImportFails ==
    /\ pc = "start"
    /\ ~hasOpenai
    /\ pc' = "exited"
    /\ exit_code' = 1
    /\ UNCHANGED <<hasOpenai, apiKey, dirExists, files, idx, success_count,
                   record, requests, writes, last, printed, startFiles,
                   startDir, run, savedBefore, prevReport, faults>>

\* MainNoKeyMkdirFirst creates the output directory before it looks at the key
MainNoKeyMkdirFirst ==
    /\ pc = "start"
    /\ hasOpenai
    /\ ~Truthy(apiKey)
    /\ dirExists' = TRUE
    /\ pc' = "exited"
    /\ exit_code' = 1
    /\ UNCHANGED <<hasOpenai, apiKey, files, idx, success_count, record,
                   requests, writes, last, printed, startFiles, startDir, run,
                   savedBefore, prevReport, faults>>

\* lines 111-115: the key is missing or empty, print the error and exit(1)
MainNoKey ==
    /\ pc = "start"
    /\ hasOpenai
    /\ ~Truthy(apiKey)
    /\ pc' = "exited"
    /\ exit_code' = 1
    /\ UNCHANGED <<hasOpenai, apiKey, dirExists, files, idx, success_count,
                   record, requests, writes, last, printed, startFiles,
                   startDir, run, savedBefore, prevReport, faults>>

\* lines 111-118: the key is there and mkdir(parents=True, exist_ok=True)
\* raises (a file stands at the path, or a parent cannot be written); nothing
\* catches it and the process ends with status 1.  A directory that is there
\* makes mkdir return.
MainMkdirFails ==
    /\ pc = "start"
    /\ hasOpenai
    /\ Truthy(apiKey)
    /\ ~dirExists
    /\ pc' = "exited"
    /\ exit_code' = 1
    /\ UNCHANGED <<hasOpenai, apiKey, dirExists, files, idx, success_count,
                   record, requests, writes, last, printed, startFiles,
                   startDir, run, savedBefore, prevReport, faults>>

\* lines 111-124: the key is there, the directory is made and
\* OpenAI(api_key=...) raises; nothing catches it
MainClientFails ==
    /\ pc = "start"
    /\ hasOpenai
    /\ Truthy(apiKey)
    /\ dirExists' = TRUE
    /\ pc' = "exited"
    /\ exit_code' = 1
    /\ UNCHANGED <<hasOpenai, apiKey, files, idx, success_count, record,
                   requests, writes, last, printed, startFiles, startDir, run,
                   savedBefore, prevReport, faults>>

\* lines 111-126: the key is there; mkdir(parents, exist_ok), build the
\* client, success_count = 0 and enter the loop
MainSetup ==
    /\ pc = "start"
    /\ hasOpenai
    /\ Truthy(apiKey)
    /\ dirExists' = TRUE
    /\ success_count' = 0
    /\ idx' = 1
    /\ pc' = "loop"
    /\ UNCHANGED <<hasOpenai, apiKey, files, record, requests, writes, last,
                   printed, exit_code, startFiles, startDir, run, savedBefore,
                   prevReport, faults>>

\* lines 128-129: the call generate_texture(client, name, prompt) for the
\* current name under one choice of the environment.  When the call returns,
\* its result is counted and the loop goes to the next name; when an
\* exception leaves it, nothing in main catches it and the process ends with
\* status 1; when it hangs, the process stays where it is.
Visit(call) ==
    LET name == TEXTURES[idx]
        resp == call[1]
        fault == call[2]
        o == generate_texture(files, name, resp, fault)
    IN /\ files' = o.files
       /\ requests' = [requests EXCEPT ![name] = @ + o.requests]
       /\ writes' = [writes EXCEPT ![name] = @ + o.writes]
       /\ last' = IF o.requests = 0 /\ o.ends # "return" THEN last
                  ELSE [name |-> name,
                        resp |-> IF o.requests = 0 THEN "-" ELSE RespClass(resp),
                        downloads |-> o.downloads, err |-> o.err]
       /\ IF o.ends = "return"
          THEN /\ record' = [record EXCEPT ![name] =
                               Append(@, [tag |-> o.tag, ret |-> o.ret])]
               /\ success_count' = IF o.ret THEN success_count + 1 ELSE success_count
               /\ faults' = IF ~o.ret \/ (o.tag = "OK" /\ o.files[name] = Truncated)
                            THEN faults + 1 ELSE faults
               /\ faults' <= MaxFaults
               /\ idx' = idx + 1
               /\ UNCHANGED <<pc, exit_code>>
          ELSE /\ pc' = IF o.ends = "raise" THEN "exited" ELSE "blocked"
               /\ exit_code' = IF o.ends = "raise" THEN 1 ELSE exit_code
               /\ UNCHANGED <<record, success_count, faults, idx>>

\* lines 127-129: one iteration of the for loop; whether the existence check
\* raises, the service's response and the I/O fault are the environment's
\* choice
LoopStep ==
    /\ pc = "loop"
    /\ idx <= Len(TEXTURES)
    /\ \E call \in Calls : Visit(call)
    /\ UNCHANGED <<hasOpenai, apiKey, dirExists, printed, startFiles,
                   startDir, run, savedBefore, prevReport>>

\* SummaryHintAlways prints the retry hint also when nothing failed
SummaryHintAlways ==
    /\ pc = "loop"
    /\ idx > Len(TEXTURES)
    /\ printed' = [count |-> success_count, total |-> Len(TEXTURES),
                   retry_hint |-> success_count <= Len(TEXTURES)]
    /\ pc' = "done"
    /\ exit_code' = 0
    /\ UNCHANGED <<hasOpenai, apiKey, dirExists, files, idx, success_count,
                   record, requests, writes, last, startFiles, startDir, run,
                   savedBefore, prevReport, faults>>

\* lines 131-135: the loop is over; print the summary, and the retry hint
\* when some item failed, then return
Summary ==
    /\ pc = "loop"
    /\ idx > Len(TEXTURES)
    /\ printed' = [count |-> success_count, total |-> Len(TEXTURES),
                   retry_hint |-> success_count < Len(TEXTURES)]
    /\ pc' = "done"
    /\ exit_code' = 0
    /\ UNCHANGED <<hasOpenai, apiKey, dirExists, files, idx, success_count,
                   record, requests, writes, last, startFiles, startDir, run,
                   savedBefore, prevReport, faults>>

\* the user runs the script again on the same output directory, after the
\* last run ended or after the user interrupted a run that hung
Rerun ==
    /\ pc \in { "done", "exited", "blocked" }
    /\ run < MaxRuns
    /\ run' = run + 1
    /\ hasOpenai' \in BOOLEAN
    /\ apiKey' \in { NoneVal, "", "sk-key" }
    /\ pc' = "start"
    /\ idx' = 1
    /\ success_count' = 0
    /\ record' = [n \in Names |-> << >>]
    /\ requests' = [n \in Names |-> 0]
    /\ writes' = [n \in Names |-> 0]
    /\ last' = NoCall
    /\ printed' = NoSummary
    /\ exit_code' = Running
    /\ startFiles' = files
    /\ startDir' = dirExists
    /\ savedBefore' = savedBefore \cup
           { n \in Names : record[n] # << >> /\ record[n][1].tag = "OK" }
    /\ prevReport' = printed.count
    /\ UNCHANGED <<dirExists, files, faults>>

Next ==
    \/ ImportFails
    \/ MainNoKey
    \/ MainMkdirFails
    \/ MainClientFails
    \/ MainSetup
    \/ LoopStep
    \/ Summary

\* one run of the script
Spec == Init /\ [][Next]_vars

\* consecutive runs, the first of them on an empty output directory
InitFresh == Init /\ \A n \in Names : files[n] = Absent

NextRerun == Next \/ Rerun

SpecRerun == InitFresh /\ [][NextRerun]_vars

TypeOK ==
    /\ hasOpenai \in BOOLEAN
    /\ apiKey \in { NoneVal, "", "sk-key" }
    /\ dirExists \in BOOLEAN
    /\ files \in [Names -> { Absent, OldBytes, ImageBytes, Truncated }]
    /\ pc \in { "start", "loop", "done", "exited", "blocked" }
    /\ idx \in 1..(Len(TEXTURES) + 1)
    /\ success_count \in 0..Len(TEXTURES)
    /\ requests \in [Names -> 0..1]
    /\ writes \in [Names -> 0..1]
    /\ exit_code \in { Running, 0, 1 }
    /\ run \in 1..MaxRuns
    /\ faults \in 0..MaxFaults

-----------------------------------------------------------------------------
(* Vocabulary of the properties *)

Total == Len(TEXTURES)

\* the names the loop has been through in this run
VisitedNames == { TEXTURES[i] : i \in 1..(idx - 1) }

\* the outcome recorded for a visited name
OutcomeOf(n) ==
    CASE record[n][1].tag = "SKIP" -> "already-present"
      [] record[n][1].tag = "OK" -> "saved"
      [] record[n][1].tag = "ERR" -> "failed"
      [] OTHER -> "unknown"

HasOutcome(n, o) == record[n] # << >> /\ OutcomeOf(n) = o

Succeeded == { n \in Names : HasOutcome(n, "already-present") \/ HasOutcome(n, "saved") }

Failed == { n \in Names : HasOutcome(n, "failed") }

PreExisting == { n \in Names : startFiles[n] # Absent }

KeyMissing == apiKey \in { NoneVal, "" }

-----------------------------------------------------------------------------
(* Properties *)

\* C1: a texture whose file exists when the batch visits it keeps its bytes,
\* is reported as skipped, is counted as a success and causes no request and
\* no write, whatever the service would have answered.
C1_ExistingFileIsSkipped ==
    /\ \A n \in PreExisting :
          files[n] = startFiles[n] /\ requests[n] = 0 /\ writes[n] = 0
    /\ \A n \in VisitedNames :
          startFiles[n] # Absent =>
              /\ record[n] = << [tag |-> "SKIP", ret |-> TRUE] >>
              /\ n \in Succeeded
              /\ success_count >= Cardinality(PreExisting \cap VisitedNames)

\* the whole table was visited, an old file was skipped and kept next to a
\* texture that was generated
C1_Witness ==
    /\ pc = "done"
    /\ startFiles["ritual_floor"] = OldBytes
    /\ files["ritual_floor"] = OldBytes
    /\ HasOutcome("ritual_floor", "already-present")
    /\ HasOutcome("ritual_wall", "saved")

\* C2: without a credential (unset or empty) the run ends with status 1
\* before any network activity: no request, no download, no file written and
\* no output directory created.
C2_NoKeyNoActivity ==
    KeyMissing =>
        /\ pc \in { "start", "exited" }
        /\ \A n \in Names : requests[n] = 0 /\ writes[n] = 0 /\ record[n] = << >>
        /\ last = NoCall
        /\ files = startFiles
        /\ dirExists = startDir
        /\ printed = NoSummary
        /\ exit_code # 0
        /\ pc = "exited" => exit_code = 1

\* the run with an empty key has exited and there is still no output directory
C2_Witness ==
    /\ hasOpenai
    /\ apiKey = ""
    /\ pc = "exited"
    /\ exit_code = 1
    /\ ~dirExists

\* C3: an item whose request, download, decode or write fails is recorded as
\* failed and the batch is not aborted: every later item is still processed,
\* skipped when its file is present and attempted when it is absent.
C3_FailureDoesNotAbort ==
    /\ Failed # {} => pc \in { "loop", "done", "blocked" } /\ exit_code # 1
    /\ last.err # "" =>
          /\ record[last.name] = << [tag |-> "ERR", ret |-> FALSE] >>
          /\ last.name = TEXTURES[idx - 1]
    /\ pc = "done" =>
          \A n \in Names :
              /\ Len(record[n]) = 1
              /\ startFiles[n] # Absent => HasOutcome(n, "already-present")
              /\ startFiles[n] = Absent => requests[n] = 1

\* C4: a texture that was absent when visited and ended as failed has no file
\* at its output path, at whatever point the failure happened; with exactly
\* one failure the run reports 7/8 and that one file is absent.
C4_FailedLeavesNoFile ==
    \A n \in Failed : startFiles[n] = Absent => files[n] = Absent

\* C5: a response with neither a URL nor inline data makes the item failed,
\* with no file at its path and no download attempted.
C5_NoImageDataFails ==
    last.resp = "neither" =>
        /\ record[last.name] = << [tag |-> "ERR", ret |-> FALSE] >>
        /\ files[last.name] = Absent
        /\ writes[last.name] = 0
        /\ last.downloads = 0
        /\ requests[last.name] = 1

\* the service answered an item without URL and without data, and the script
\* printed its "no image data" error
C5_Witness ==
    /\ last.resp = "neither"
    /\ last.err = NoImageData
    /\ HasOutcome(last.name, "failed")

\* C6: the printed count is the number of specs that are already-present or
\* saved, out of 8; the retry hint is printed exactly when the count is below
\* 8; without failed items the count is 8, the skips are the pre-existing files
\* and the new files are the others.
C6_SummaryCountsSuccesses ==
    /\ pc = "loop" => success_count = Cardinality(Succeeded)
    /\ pc = "done" =>
          /\ printed.count = Cardinality(Succeeded)
          /\ printed.total = 8
          /\ printed.retry_hint <=> (printed.count < 8)
          /\ printed.count = 8 - Cardinality(Failed)
          /\ Failed = {} =>
                /\ printed.count = 8
                /\ { n \in Names : HasOutcome(n, "already-present") } = PreExisting
                /\ Cardinality({ n \in Names : startFiles[n] = Absent /\ files[n] # Absent })
                     = 8 - Cardinality(PreExisting)

\* three files were there, five were generated, the summary says 8/8 and no
\* retry hint
C6_Witness ==
    /\ pc = "done"
    /\ Cardinality(PreExisting) = 3
    /\ Cardinality({ n \in Names : HasOutcome(n, "saved") }) = 5
    /\ printed = [count |-> 8, total |-> 8, retry_hint |-> FALSE]

\* C7: with the credential present the run always completes: it never ends
\* or stops anywhere but after the summary, with every spec visited and exit
\* status 0, whatever mix of successes and failures happens.  Stated for the
\* runs that have got through their first item.
C7_RunCompletes ==
    (apiKey = "sk-key" /\ VisitedNames # {} /\ pc # "loop") =>
        /\ pc = "done"
        /\ exit_code = 0
        /\ printed # NoSummary
        /\ \A n \in Names : Len(record[n]) = 1

\* C8: after a run with the credential every spec has exactly one outcome
\* among already-present, saved and failed; the specs are visited once each in
\* the fixed order and no spec is dropped.  The end of the run is taken for
\* the runs that have got through their first item.
C8_ExactlyOneOutcome ==
    /\ \A i \in 1..Total :
          LET n == TEXTURES[i]
          IN IF i < idx
             THEN /\ Len(record[n]) = 1
                  /\ OutcomeOf(n) \in { "already-present", "saved", "failed" }
             ELSE record[n] = << >>
    /\ (apiKey = "sk-key" /\ VisitedNames # {} /\ pc \in { "done", "exited" }) =>
          \A n \in Names : Len(record[n]) = 1

\* C9: in one run a texture gets exactly one request when its file is absent
\* at its visit and none when it is present; nothing is retried and an output
\* path is written at most once.  (The request of a call that hangs in its
\* download has been sent too.)
C9_OneRequestPerMissing ==
    \A i \in 1..Total :
        LET n == TEXTURES[i]
        IN /\ writes[n] <= 1
           /\ requests[n] =
                 IF \/ i < idx /\ startFiles[n] = Absent
                    \/ i = idx /\ pc = "blocked"
                 THEN 1 ELSE 0

\* a failed item had one request, a skipped item none, and a transfer that
\* stopped early wrote its path once
C9_Witness ==
    /\ pc = "done"
    /\ \E n \in Failed : requests[n] = 1 /\ writes[n] = 1
    /\ \E n \in Names : HasOutcome(n, "already-present") /\ requests[n] = 0
    /\ \E n \in Names : HasOutcome(n, "saved") /\ writes[n] = 1

\* C10: over consecutive runs a run sends requests only for the textures
\* missing at its start, which were never saved before; it leaves the files
\* that were there untouched; after a run that reported 8/8 no request is
\* sent; a run without failure leaves all 8 files, and a run that starts with
\* all 8 files reports 8/8.
C10_RerunRetriesOnlyMissing ==
    /\ \A n \in Names :
          /\ requests[n] > 0 => startFiles[n] = Absent
          /\ startFiles[n] # Absent => files[n] = startFiles[n] /\ writes[n] = 0
          /\ startFiles[n] = Absent => n \notin savedBefore
          /\ n \in savedBefore => startFiles[n] # Absent /\ files[n] = startFiles[n]
    /\ prevReport = 8 => \A n \in Names : requests[n] = 0
    /\ (pc = "done" /\ Failed = {}) => \A n \in Names : files[n] # Absent
    /\ (pc = "done" /\ PreExisting = Names) =>
          printed = [count |-> 8, total |-> 8, retry_hint |-> FALSE]

\* the first run reported 7/8 and left one file missing; the second run asked
\* for that one only and reported 8/8
C10_Witness ==
    /\ run = 2
    /\ pc = "done"
    /\ prevReport = 7
    /\ Cardinality({ n \in Names : requests[n] = 1 }) = 1
    /\ Cardinality(savedBefore) = 7
    /\ printed.count = 8

====
